---- MODULE Spec2Model ----
(***************************************************************************)
(* Model of tasklist.task_manager.TaskList: the pending_tasks table, the   *)
(* create-card requests sent to the remote board, and the operations add,  *)
(* upload, delete_pending_task and edit_pending_task.                      *)
(*                                                                         *)
(* Conventions.  A Python value that may be None is <<>> (None) or <<v>>   *)
(* (Some(v)).  A description is a sequence of one-character strings, every *)
(* other text value is a string.  A network call has one of the outcomes   *)
(* of NetOutcomes: an HTTP response with a status, or a                    *)
(* requests.RequestException.                                              *)
(***************************************************************************)
EXTENDS Integers, Sequences, FiniteSets, TLC

VARIABLES
    store,      \* rows of pending_tasks, in rowid order
    nextId,     \* the rowid AUTOINCREMENT gives to the next inserted row
    last,       \* the operation that ran last: arguments, requests, outcome
    firstPost,  \* ids of the pending rows upload() posted, by first post
    carded      \* ids of the pending rows whose post by upload() succeeded

vars == <<store, nextId, last, firstPost, carded>>

\* ------------------------------------------------------------------ bounds
MaxId == 3
\* rows ever inserted in the specification of the edits
MaxEditId == 2
\* rows ever inserted in the specification of the listings and the search
MaxQueryId == 3
\* rows ever inserted in the specifications of sub-tasks and their parents
MaxTreeId == 3
\* rows of a table written under an older schema
MaxOldRows == 2

\* ------------------------------------------------------------ Python values
None == <<>>
Some(v) == <<v>>

\* truth value of an optional integer / string ("if parent_id:", "if due_date:")
TruthyInt(o) == o # None /\ o[1] # 0
TruthyStr(o) == o # None /\ o[1] # ""

\* truth of an optional text given as a sequence of characters
TruthyText(o) == o # None /\ o[1] # <<>>

\* "not task.strip()": every character is white space
Whitespace == {" ", "\t", "\n"}

\* variant of IsBlank: "not task", only the empty string counts
IsBlank_empty_only(task) == task = <<>>

IsBlank(task) == \A i \in 1..Len(task) : task[i] \in Whitespace

\* ------------------------------------------------------------------ network
Response(code) == [exc |-> FALSE, status |-> code]
RequestException == [exc |-> TRUE, status |-> 0]
NetOutcomes == {Response(200), Response(201), Response(500), RequestException}
ProbeOutcomes == {Response(200), Response(401), RequestException}
\* the answers to one create call taken by itself
CardOutcomes ==
    NetOutcomes \cup {Response(204), Response(302), Response(401), Response(404)}

\* check_network(): True only for a 200 answer, False for the rest
check_network(resp) == ~resp.exc /\ resp.status = 200

self_list_id == "test_list_id"

\* variant of Payload: the parent is not written into the card text
Payload_no_parent(task, due_date, priority, category, parent_id, list_id) ==
    [ idList |-> IF TruthyStr(list_id) THEN list_id[1] ELSE self_list_id,
      name   |-> task,
      desc   |-> "Priority: " \o ToString(priority) \o "\nCategory: " \o category,
      due    |-> IF TruthyStr(due_date) THEN due_date ELSE None ]

\* the form data _upload_task posts (key and token left out)
Payload(task, due_date, priority, category, parent_id, list_id) ==
    [ idList |-> IF TruthyStr(list_id) THEN list_id[1] ELSE self_list_id,
      name   |-> task,
      desc   |-> "Priority: " \o ToString(priority) \o "\nCategory: " \o category
                 \o (IF TruthyInt(parent_id)
                     THEN "\nSub-task of: " \o ToString(parent_id[1])
                     ELSE ""),
      due    |-> IF TruthyStr(due_date) THEN due_date ELSE None ]

\* variant of UploadTaskResult: a failed network call is reported as False
UploadTaskResult_swallow(resp) ==
    IF resp.exc THEN "false"
    ELSE IF resp.status \in {200, 201} THEN "true"
    ELSE "false"

\* _upload_task(): "true", "false", or "raise" (ConnectionError)
UploadTaskResult(resp) ==
    IF resp.exc THEN "raise"
    ELSE IF resp.status \in {200, 201} THEN "true"
    ELSE "false"

\* one create-card request: tid is the id of the pending row it was made for
\* (0 for the task add() sends directly)
Post(tid, data, resp) == [tid |-> tid, data |-> data, resp |-> resp]

\* -------------------------------------------------------------- local store
Row(id, description, due_date, priority, category, parent_id) ==
    [ id |-> id, description |-> description, due_date |-> due_date,
      priority |-> priority, category |-> category, parent_id |-> parent_id ]

HasDescription(rows, description) ==
    \E i \in 1..Len(rows) : rows[i].description = description

\* variant of has_pending_tasks: the count of rows is not looked at
has_pending_tasks_always(rows) == TRUE

has_pending_tasks(rows) == Len(rows) > 0

\* variant of _load_tasks: newest row first
_load_tasks_reversed(rows) == [i \in 1..Len(rows) |-> rows[Len(rows) + 1 - i]]

_load_tasks(rows) == rows

\* variant of _save_task_locally: plain INSERT into a table without UNIQUE
_save_task_locally_append(rows, id, task, due_date, priority, category, parent_id) ==
    Append(rows, Row(id, task, due_date, priority, category, parent_id))

\* variant of _save_task_locally: INSERT OR REPLACE, the old row gives way
_save_task_locally_replace(rows, id, task, due_date, priority, category, parent_id) ==
    LET Keep(r) == r.description # task
    IN  Append(SelectSeq(rows, Keep),
               Row(id, task, due_date, priority, category, parent_id))

\* INSERT OR IGNORE: a row whose description is already there is dropped
_save_task_locally(rows, id, task, due_date, priority, category, parent_id) ==
    IF HasDescription(rows, task)
    THEN rows
    ELSE Append(rows, Row(id, task, due_date, priority, category, parent_id))

\* variant of delete_pending_task: True is returned without looking at rowcount
delete_pending_task_true(rows, task_description) ==
    LET Keep(r) == r.description # task_description
    IN  [rows |-> SelectSeq(rows, Keep), ret |-> TRUE]

\* DELETE FROM pending_tasks WHERE description = ?
delete_pending_task(rows, task_description) ==
    LET Keep(r) == r.description # task_description
    IN  [rows |-> SelectSeq(rows, Keep), ret |-> HasDescription(rows, task_description)]

\* variant of edit_pending_task: one UPDATE per column, so that on a clash
\* of descriptions the other columns are still written
edit_pending_task_partial(rows, task_id, description, due_date, priority, category) ==
    LET nothing == description = None /\ due_date = None
                   /\ priority = None /\ category = None
        found   == \E i \in 1..Len(rows) : rows[i].id = task_id
        clash   == /\ description # None
                   /\ \E i \in 1..Len(rows) : /\ rows[i].id # task_id
                                              /\ rows[i].description = description[1]
        Set(r)  == IF r.id # task_id THEN r
                   ELSE [ r EXCEPT
                          !.description = IF description # None /\ ~clash
                                          THEN description[1] ELSE @,
                          !.due_date = IF due_date # None THEN due_date ELSE @,
                          !.priority = IF priority # None THEN priority[1] ELSE @,
                          !.category = IF category # None THEN category[1] ELSE @ ]
    IN  IF nothing \/ ~found
        THEN [rows |-> rows, ret |-> FALSE]
        ELSE [rows |-> [i \in 1..Len(rows) |-> Set(rows[i])], ret |-> ~clash]

\* variant of edit_pending_task: every column is written, an omitted due
\* date as NULL
edit_pending_task_all_columns(rows, task_id, description, due_date, priority, category) ==
    LET nothing == description = None /\ due_date = None
                   /\ priority = None /\ category = None
        found   == \E i \in 1..Len(rows) : rows[i].id = task_id
        clash   == /\ description # None
                   /\ \E i \in 1..Len(rows) : /\ rows[i].id # task_id
                                              /\ rows[i].description = description[1]
        Set(r)  == IF r.id # task_id THEN r
                   ELSE [ r EXCEPT
                          !.description = IF description # None THEN description[1] ELSE @,
                          !.due_date = due_date,
                          !.priority = IF priority # None THEN priority[1] ELSE @,
                          !.category = IF category # None THEN category[1] ELSE @ ]
    IN  IF nothing \/ ~found \/ clash
        THEN [rows |-> rows, ret |-> FALSE]
        ELSE [rows |-> [i \in 1..Len(rows) |-> Set(rows[i])], ret |-> TRUE]

\* UPDATE pending_tasks SET ... WHERE id = ?; a description that another row
\* holds violates UNIQUE, the statement fails and False is returned
edit_pending_task(rows, task_id, description, due_date, priority, category) ==
    LET nothing == description = None /\ due_date = None
                   /\ priority = None /\ category = None
        found   == \E i \in 1..Len(rows) : rows[i].id = task_id
        clash   == /\ description # None
                   /\ \E i \in 1..Len(rows) : /\ rows[i].id # task_id
                                              /\ rows[i].description = description[1]
        Set(r)  == IF r.id # task_id THEN r
                   ELSE [ r EXCEPT
                          !.description = IF description # None THEN description[1] ELSE @,
                          !.due_date = IF due_date # None THEN due_date ELSE @,
                          !.priority = IF priority # None THEN priority[1] ELSE @,
                          !.category = IF category # None THEN category[1] ELSE @ ]
    IN  IF nothing \/ ~found \/ clash
        THEN [rows |-> rows, ret |-> FALSE]
        ELSE [rows |-> [i \in 1..Len(rows) |-> Set(rows[i])], ret |-> TRUE]

\* variant of _clear_tasks: only the first task of the list is deleted
_clear_tasks_first(rows, tasks_to_clear) ==
    LET Keep(r) == tasks_to_clear = <<>> \/ r.id # tasks_to_clear[1].id
    IN  SelectSeq(rows, Keep)

_clear_tasks(rows, tasks_to_clear) ==
    LET task_ids == {tasks_to_clear[i].id : i \in 1..Len(tasks_to_clear)}
        Keep(r) == r.id \notin task_ids
    IN  SelectSeq(rows, Keep)

\* ------------------------------------------------------------------- schema
\* a table row is a function from the names of its columns; id and
\* description were always there
BaseColumns == {"id", "description"}
AddedColumns == {"due_date", "priority", "category", "parent_id"}

\* ALTER TABLE pending_tasks ADD COLUMN column [DEFAULT default]: fails with
\* OperationalError, which is passed over, when the column is there; else
\* every row reads the default in it
AddColumn(rows, column, default) ==
    [ i \in 1..Len(rows) |->
        IF column \in DOMAIN rows[i] THEN rows[i]
        ELSE [ c \in DOMAIN rows[i] \cup {column} |->
                 IF c = column THEN default ELSE rows[i][c] ] ]

\* variant of _init_db: the table is dropped and created anew when a column
\* is missing
_init_db_recreate(rows) ==
    IF \A i \in 1..Len(rows) : AddedColumns \subseteq DOMAIN rows[i]
    THEN rows ELSE <<>>

\* _init_db(): CREATE TABLE IF NOT EXISTS leaves an existing table alone,
\* then the four ALTER TABLE statements in their order
_init_db(rows) ==
    AddColumn(AddColumn(AddColumn(AddColumn(rows, "due_date", None),
                                  "priority", 1),
                        "category", "General"),
              "parent_id", None)

\* ------------------------------------------------------------------ queries
\* the due dates of the model in the order of their text (BINARY collation)
DueDateOrder == <<"2025-01-02", "2025-12-31", "2026-01-01">>
TextRank(text) == CHOOSE i \in 1..Len(DueDateOrder) : DueDateOrder[i] = text

\* ORDER BY priority / ORDER BY due_date, ascending: NULL comes first
OrderLeq(sort_by, r1, r2) ==
    IF sort_by = "priority" THEN r1.priority <= r2.priority
    ELSE \/ r1.due_date = None
         \/ /\ r2.due_date # None
            /\ TextRank(r1.due_date[1]) <= TextRank(r2.due_date[1])

\* WHERE parent_id IS NULL [AND category = ?] [AND priority = ?]
TopLevelFilter(rows, category, priority) ==
    LET Keep(r) == /\ r.parent_id = None
                   /\ TruthyStr(category) => r.category = category[1]
                   /\ TruthyInt(priority) => r.priority = priority[1]
    IN  SelectSeq(rows, Keep)

Reorderings(rows) ==
    { [i \in 1..Len(rows) |-> rows[p[i]]] :
      p \in {q \in [1..Len(rows) -> 1..Len(rows)] :
                \A i, j \in 1..Len(rows) : q[i] = q[j] => i = j} }

\* variant of OrderBy: ORDER BY ... DESC
OrderBy_descending(rows, sort_by) ==
    IF sort_by # None /\ sort_by[1] \in {"priority", "due_date"}
    THEN { s \in Reorderings(rows) :
             \A i \in 1..(Len(s) - 1) : OrderLeq(sort_by[1], s[i + 1], s[i]) }
    ELSE { rows }

\* the orders in which the selected rows may come back: any order the
\* ORDER BY clause allows (rows with equal keys come in no fixed order), the
\* rowid order without the clause
OrderBy(rows, sort_by) ==
    IF sort_by # None /\ sort_by[1] \in {"priority", "due_date"}
    THEN { s \in Reorderings(rows) :
             \A i \in 1..(Len(s) - 1) : OrderLeq(sort_by[1], s[i], s[i + 1]) }
    ELSE { rows }

\* get_pending_tasks(sort_by, category, priority): the possible results
get_pending_tasks(rows, sort_by, category, priority) ==
    OrderBy(TopLevelFilter(rows, category, priority), sort_by)

\* variant of get_sub_tasks: WHERE id = ?
get_sub_tasks_by_id(rows, parent_id) ==
    LET Keep(r) == r.id = parent_id
    IN  SelectSeq(rows, Keep)

\* get_sub_tasks(parent_id): WHERE parent_id = ?
get_sub_tasks(rows, parent_id) ==
    LET Keep(r) == r.parent_id = Some(parent_id)
    IN  SelectSeq(rows, Keep)

\* has_sub_tasks(task_id): COUNT(id) WHERE parent_id = ? is positive
has_sub_tasks(rows, task_id) ==
    Cardinality({i \in 1..Len(rows) : rows[i].parent_id = Some(task_id)}) > 0

\* LIKE compares ASCII letters without regard to case
UpperCase == <<"A", "B", "C", "D", "E", "F", "G", "H", "I", "J", "K", "L", "M",
               "N", "O", "P", "Q", "R", "S", "T", "U", "V", "W", "X", "Y", "Z">>
LowerCase == <<"a", "b", "c", "d", "e", "f", "g", "h", "i", "j", "k", "l", "m",
               "n", "o", "p", "q", "r", "s", "t", "u", "v", "w", "x", "y", "z">>
Fold(c) ==
    IF \E i \in 1..26 : UpperCase[i] = c
    THEN LowerCase[CHOOSE i \in 1..26 : UpperCase[i] = c]
    ELSE c

\* text LIKE pattern: % stands for any run of characters, _ for any one
RECURSIVE Like(_, _)
Like(pattern, text) ==
    IF pattern = <<>> THEN text = <<>>
    ELSE IF Head(pattern) = "%"
         THEN Like(Tail(pattern), text)
              \/ (text # <<>> /\ Like(pattern, Tail(text)))
    ELSE IF text = <<>> THEN FALSE
    ELSE IF Head(pattern) = "_" THEN Like(Tail(pattern), Tail(text))
    ELSE Fold(Head(pattern)) = Fold(Head(text)) /\ Like(Tail(pattern), Tail(text))

\* search_pending_tasks(query): WHERE description LIKE '%' || query || '%'
search_pending_tasks(rows, query) ==
    LET Keep(r) == Like(<<"%">> \o query \o <<"%">>, r.description)
    IN  SelectSeq(rows, Keep)

\* ---------------------------------------------------------------- commands
\* get_task_from_list_by_number(task_list, task_number): the task at that
\* 1-based position, or None
get_task_from_list_by_number(task_list, task_number) ==
    IF task_list = <<>> THEN None
    ELSE IF ~(0 <= task_number - 1 /\ task_number - 1 < Len(task_list)) THEN None
    ELSE Some(task_list[task_number])

\* handle_edit_command(args): the rows afterwards and what was reported
handle_edit_command(rows, task_number, description, due_date, priority, category) ==
    IF ~(TruthyText(description) \/ TruthyStr(due_date)
         \/ TruthyInt(priority) \/ TruthyStr(category))
    THEN [rows |-> rows, outcome |-> "no_field"]
    ELSE LET tasks == TopLevelFilter(rows, None, None)
             task_to_edit == get_task_from_list_by_number(tasks, task_number)
         IN  IF task_to_edit = None
             THEN [rows |-> rows, outcome |-> "no_task"]
             ELSE LET r == edit_pending_task(rows, task_to_edit[1].id, description,
                                             due_date, priority, category)
                  IN  [rows |-> r.rows,
                       outcome |-> IF r.ret THEN "edited" ELSE "failed"]

\* ------------------------------------------------------------------ upload
\* variant of UploadLoop: a failed request does not end the loop
RECURSIVE UploadLoop_continue(_, _, _, _)
UploadLoop_continue(tasks, script, uploaded_tasks, sent) ==
    IF tasks = <<>>
    THEN [uploaded |-> uploaded_tasks, sent |-> sent, end |-> "success"]
    ELSE LET task == Head(tasks)
             resp == script[Len(sent) + 1]
             call == [tid |-> task.id,
                      data |-> Payload(task.description, task.due_date, task.priority,
                                       task.category, task.parent_id, None),
                      resp |-> resp]
         IN  UploadLoop_continue(Tail(tasks), script,
                                 IF resp.exc \/ resp.status \notin {200, 201}
                                 THEN uploaded_tasks
                                 ELSE Append(uploaded_tasks, task),
                                 Append(sent, call))

\* the for loop of upload(): script[i] is the outcome of the i-th request
RECURSIVE UploadLoop(_, _, _, _)
UploadLoop(tasks, script, uploaded_tasks, sent) ==
    IF tasks = <<>>
    THEN [uploaded |-> uploaded_tasks, sent |-> sent, end |-> "success"]
    ELSE LET task == Head(tasks)
             resp == script[Len(sent) + 1]
             call == Post(task.id,
                          Payload(task.description, task.due_date, task.priority,
                                  task.category, task.parent_id, None),
                          resp)
             res  == UploadTaskResult(resp)
         IN  IF res = "true"
             THEN UploadLoop(Tail(tasks), script,
                             Append(uploaded_tasks, task), Append(sent, call))
             ELSE [uploaded |-> uploaded_tasks, sent |-> Append(sent, call),
                   end |-> IF res = "raise" THEN "raised" ELSE "aborted"]

\* variant of upload: the uploaded tasks are never deleted
upload_no_clear(rows, script) ==
    IF ~has_pending_tasks(rows)
    THEN [rows |-> rows, sent |-> <<>>, end |-> "empty"]
    ELSE LET run == UploadLoop(_load_tasks(rows), script, <<>>, <<>>)
         IN  [rows |-> rows, sent |-> run.sent, end |-> run.end]

\* upload(): the rows left, the requests made and how the call ended
upload(rows, script) ==
    IF ~has_pending_tasks(rows)
    THEN [rows |-> rows, sent |-> <<>>, end |-> "empty"]
    ELSE LET run == UploadLoop(_load_tasks(rows), script, <<>>, <<>>)
         IN  [rows |-> IF run.end = "raised"
                       THEN rows
                       ELSE _clear_tasks(rows, run.uploaded),
              sent |-> run.sent,
              end  |-> run.end]

\* variant of upload_stopped: each uploaded task is deleted at once
upload_stopped_eager(rows, script, j, cleared) ==
    LET run  == upload(rows, script)
        sent == IF cleared THEN run.sent ELSE SubSeq(run.sent, 1, j)
        done == {sent[i].tid : i \in {n \in 1..Len(sent) :
                                         UploadTaskResult(sent[n].resp) = "true"}}
        Keep(r) == r.id \notin done
    IN  [rows |-> SelectSeq(rows, Keep), sent |-> sent]

\* upload() cut short by the end of the process: after j requests of the
\* loop (nothing is written before _clear_tasks), or, when cleared, between
\* the commit of _clear_tasks and the return
upload_stopped(rows, script, j, cleared) ==
    LET run == upload(rows, script)
    IN  IF cleared
        THEN [rows |-> run.rows, sent |-> run.sent]
        ELSE [rows |-> rows, sent |-> SubSeq(run.sent, 1, j)]

\* ------------------------------------------------------------ history (ghost)
RECURSIVE NoteFirst(_, _)
NoteFirst(seen, sent) ==
    IF sent = <<>> THEN seen
    ELSE NoteFirst(IF \E i \in 1..Len(seen) : seen[i] = Head(sent).tid
                   THEN seen ELSE Append(seen, Head(sent).tid),
                   Tail(sent))

Succeeded(sent) ==
    {sent[i].tid : i \in {j \in 1..Len(sent) : UploadTaskResult(sent[j].resp) = "true"}}

\* ------------------------------------------------------------------ inputs
Descriptions == {<<"a">>, <<"b">>, <<"c">>}
BlankDescriptions == {<<" ">>}
Attributes ==
    { [due_date |-> None, priority |-> 1, category |-> "General", parent_id |-> None],
      [due_date |-> Some("2025-12-31"), priority |-> 3, category |-> "Work",
       parent_id |-> Some(1)] }
ListIds == {None, Some("other_list_id")}

AddArgs ==
    { [task |-> d, due_date |-> a.due_date, priority |-> a.priority,
       category |-> a.category, parent_id |-> a.parent_id] :
      d \in Descriptions \cup BlankDescriptions, a \in Attributes }

\* the outcomes of n requests in a row: the first k-1 are answered 200, the
\* others get the outcome f
Scripts(n) ==
    { [i \in 1..n |-> IF i < k THEN Response(200) ELSE f] :
      k \in 1..(n + 1), f \in NetOutcomes \ {Response(200)} }

EditDescriptions == {None, Some(<<"b">>)}
EditDueDates == {None}
EditPriorities == {None, Some(2)}
EditCategories == {None}

\* the fields an edit may supply, each one given or left out
WideEditDescriptions == {None, Some(<<"b">>)}
WideEditDueDates == {None, Some("2026-01-01")}
WideEditPriorities == {None, Some(2)}
WideEditCategories == {None, Some("Home")}

\* the tasks added in the specification of the listings and the search
QueryAddArgs ==
    { [task |-> <<"a", "b">>, due_date |-> Some("2026-01-01"), priority |-> 3,
       category |-> "Work", parent_id |-> None],
      [task |-> <<"b", "c">>, due_date |-> None, priority |-> 1,
       category |-> "Home", parent_id |-> None],
      [task |-> <<"C">>, due_date |-> Some("2025-01-02"), priority |-> 2,
       category |-> "Work", parent_id |-> None],
      [task |-> <<"a">>, due_date |-> Some("2025-01-02"), priority |-> 3,
       category |-> "", parent_id |-> None],
      [task |-> <<"c", "a">>, due_date |-> None, priority |-> 1,
       category |-> "Work", parent_id |-> Some(1)],
      [task |-> <<"b">>, due_date |-> Some("2025-12-31"), priority |-> 2,
       category |-> "Home", parent_id |-> Some(2)] }

SortBys == {None, Some("priority"), Some("due_date"), Some("category")}
CategoryFilters == {None, Some("Work"), Some("Home"), Some("")}
PriorityFilters == {None, Some(1), Some(3)}
Queries == {<<"b">>, <<"c">>, <<"a", "b">>, <<"x">>, <<"_">>, <<"a", "%", "b">>}

\* ------------------------------------------------------------------- state
Idle == [op |-> "idle"]

Init ==
    /\ store = <<>>
    /\ nextId = 1
    /\ last = Idle
    /\ firstPost = <<>>
    /\ carded = {}

\* variant of SavesLocally: no fallback after a rejected create call
SavesLocally_offline_only(online, res) == ~online

\* add(): the task is saved locally when the probe says offline or when
\* _upload_task returned False
SavesLocally(online, res) == ~online \/ res = "false"

Event(kind, tid) == [kind |-> kind, tid |-> tid]

QueuedCreates(sent) == [i \in 1..Len(sent) |-> Event("create", sent[i].tid)]

\* variant of AddEvents: the connectivity probe is made before the queue is
\* uploaded
AddEvents_probe_first(sent, probed, online, save) ==
    (IF probed THEN <<Event("probe", 0)>> ELSE <<>>)
    \o QueuedCreates(sent)
    \o (IF online THEN <<Event("create", 0)>> ELSE <<>>)
    \o (IF save THEN <<Event("insert", 0)>> ELSE <<>>)

\* what add() does, in the order of its statements: the create calls of the
\* forced upload(), then check_network(), then the create call for the new
\* task (tid 0), then the local insert
AddEvents(sent, probed, online, save) ==
    QueuedCreates(sent)
    \o (IF probed THEN <<Event("probe", 0)>> ELSE <<>>)
    \o (IF online THEN <<Event("create", 0)>> ELSE <<>>)
    \o (IF save THEN <<Event("insert", 0)>> ELSE <<>>)

\* add(task, due_date, priority, category, parent_id, force_upload, list_id)
Add(a, force_upload, list_id, script, probe, resp) ==
    LET blank  == IsBlank(a.task)
        forced == ~blank /\ force_upload /\ has_pending_tasks(store)
    IN  \E up \in {IF forced THEN upload(store, script)
                   ELSE [rows |-> store, sent |-> <<>>, end |-> "none"]} :
        LET probed == ~blank /\ up.end # "raised"
            online == probed /\ check_network(probe)
            call   == Post(0, Payload(a.task, a.due_date, a.priority, a.category,
                                      a.parent_id, list_id), resp)
            res    == UploadTaskResult(resp)
            save   == probed /\ SavesLocally(online, res)
            rows   == IF save
                      THEN _save_task_locally(up.rows, nextId, a.task, a.due_date,
                                              a.priority, a.category, a.parent_id)
                      ELSE up.rows
        IN  /\ store' = rows
            /\ nextId' = IF Len(rows) > Len(up.rows) THEN nextId + 1 ELSE nextId
            /\ firstPost' = NoteFirst(firstPost, up.sent)
            /\ carded' = carded \cup Succeeded(up.sent)
            /\ last' = [ op |-> "add", args |-> a, force_upload |-> force_upload,
                         list_id |-> list_id, pre |-> store, mid |-> up.rows,
                         sent |-> IF online THEN Append(up.sent, call) ELSE up.sent,
                         forced |-> up.end,
                         events |-> AddEvents(up.sent, probed, online, save),
                         probe |-> IF probed THEN Some(probe) ELSE None,
                         raised |-> up.end = "raised" \/ (online /\ res = "raise") ]

AddStep ==
    /\ last = Idle
    /\ nextId <= MaxId
    /\ \E a \in AddArgs, force_upload \in BOOLEAN :
         \E script \in Scripts(IF force_upload /\ ~IsBlank(a.task)
                               THEN Len(store) ELSE 0) :
           \E probe \in ProbeOutcomes :
             \E resp \in (IF check_network(probe) THEN NetOutcomes
                          ELSE {RequestException}),
                list_id \in (IF check_network(probe) THEN ListIds ELSE {None}) :
               Add(a, force_upload, list_id, script, probe, resp)

\* upload()
Upload(script) ==
    \E up \in {upload(store, script)} :
        /\ store' = up.rows
        /\ nextId' = nextId
        /\ firstPost' = NoteFirst(firstPost, up.sent)
        /\ carded' = carded \cup Succeeded(up.sent)
        /\ last' = [ op |-> "upload", pre |-> store, sent |-> up.sent,
                     end |-> up.end, raised |-> up.end = "raised" ]

UploadStep ==
    /\ last = Idle
    /\ \E script \in Scripts(Len(store)) : Upload(script)

\* upload() during which the process is stopped
UploadStopped(script, j, cleared) ==
    \E up \in {upload_stopped(store, script, j, cleared)} :
        /\ store' = up.rows
        /\ nextId' = nextId
        /\ firstPost' = NoteFirst(firstPost, up.sent)
        /\ carded' = carded \cup Succeeded(up.sent)
        /\ last' = [ op |-> "upload_stopped", pre |-> store, sent |-> up.sent,
                     cleared |-> cleared ]

UploadStoppedStep ==
    /\ last = Idle
    /\ has_pending_tasks(store)
    /\ \E script \in Scripts(Len(store)) :
         \E run \in {upload(store, script)} :
           \/ \E j \in 0..Len(run.sent) : UploadStopped(script, j, FALSE)
           \/ /\ run.end # "raised"
              /\ UploadStopped(script, Len(run.sent), TRUE)

\* delete_pending_task(task_description)
Delete(task_description) ==
    \E r \in {delete_pending_task(store, task_description)} :
        /\ store' = r.rows
        /\ last' = [ op |-> "delete", description |-> task_description,
                     pre |-> store, ret |-> r.ret ]
        /\ UNCHANGED <<nextId, firstPost, carded>>

DeleteStep ==
    /\ last = Idle
    /\ \E d \in Descriptions : Delete(d)

\* edit_pending_task(task_id, description, due_date, priority, category)
Edit(task_id, description, due_date, priority, category) ==
    \E r \in {edit_pending_task(store, task_id, description, due_date,
                                priority, category)} :
        /\ store' = r.rows
        /\ last' = [ op |-> "edit", task_id |-> task_id,
                     description |-> description, due_date |-> due_date,
                     priority |-> priority, category |-> category,
                     pre |-> store, ret |-> r.ret ]
        /\ UNCHANGED <<nextId, firstPost, carded>>

EditStep ==
    /\ last = Idle
    /\ \E task_id \in 1..MaxId, description \in EditDescriptions,
          due_date \in EditDueDates, priority \in EditPriorities,
          category \in EditCategories :
         Edit(task_id, description, due_date, priority, category)

\* the command is over and the process exits: only the database file is kept
Exit ==
    /\ last # Idle
    /\ last' = Idle
    /\ UNCHANGED <<store, nextId, firstPost, carded>>

Next == AddStep \/ UploadStep \/ DeleteStep \/ EditStep \/ Exit

Spec == Init /\ [][Next]_vars

\* _upload_task(task, due_date, priority, category, parent_id, list_id) by
\* itself: one request, its outcome, and nothing written to the store
CreateCard(a, list_id, resp) ==
    /\ last' = [ op |-> "create_card", args |-> a, list_id |-> list_id,
                 pre |-> store,
                 call |-> Post(0, Payload(a.task, a.due_date, a.priority, a.category,
                                          a.parent_id, list_id), resp),
                 ret |-> UploadTaskResult(resp) ]
    /\ UNCHANGED <<store, nextId, firstPost, carded>>

CreateCardStep ==
    /\ last = Idle
    /\ \E a \in AddArgs, list_id \in ListIds, resp \in CardOutcomes :
         ~IsBlank(a.task) /\ CreateCard(a, list_id, resp)

Line(text, task) == [text |-> text, task |-> task]

\* handle_upload_command(args): the run of upload() and the lines printed
handle_upload_command(rows, script) ==
    IF ~has_pending_tasks(rows)
    THEN [ rows |-> rows, sent |-> <<>>, end |-> "empty",
           printed |-> <<Line("No tasks to upload.", <<>>)>> ]
    ELSE LET tasks_to_upload == _load_tasks(rows)
             n == Len(tasks_to_upload)
             progress ==
                 <<Line("Found " \o ToString(n) \o " tasks to upload.", <<>>)>>
                 \o [ i \in 1..n |->
                        Line("Uploading task " \o ToString(i) \o " of " \o ToString(n),
                             tasks_to_upload[i].description) ]
             up == upload(rows, script)
         IN  [ rows |-> up.rows, sent |-> up.sent, end |-> up.end,
               printed |-> IF up.end = "raised" THEN progress
                           ELSE Append(progress,
                                       Line("All tasks uploaded successfully.", <<>>)) ]

UploadCommand(script) ==
    \E r \in {handle_upload_command(store, script)} :
        /\ store' = r.rows
        /\ nextId' = nextId
        /\ firstPost' = NoteFirst(firstPost, r.sent)
        /\ carded' = carded \cup Succeeded(r.sent)
        /\ last' = [ op |-> "upload_command", pre |-> store, sent |-> r.sent,
                     end |-> r.end, printed |-> r.printed ]

UploadCommandStep ==
    /\ last = Idle
    /\ \E script \in Scripts(Len(store)) : UploadCommand(script)

CommandDescriptions == {None, Some(<<>>), Some(<<"b">>)}
CommandPriorities == {None, Some(2)}

\* the edit command: tasklist edit <task_number> [--description] [--priority]
EditCommand(task_number, description, due_date, priority, category) ==
    \E r \in {handle_edit_command(store, task_number, description, due_date,
                                  priority, category)} :
        /\ store' = r.rows
        /\ last' = [ op |-> "edit_command", task_number |-> task_number,
                     description |-> description, due_date |-> due_date,
                     priority |-> priority, category |-> category,
                     pre |-> store, outcome |-> r.outcome ]
        /\ UNCHANGED <<nextId, firstPost, carded>>

EditCommandStep ==
    /\ last = Idle
    /\ \E task_number \in 1..MaxEditId, description \in CommandDescriptions,
          priority \in CommandPriorities :
         EditCommand(task_number, description, None, priority, None)

\* add() while the service cannot be reached
AddOfflineStep ==
    /\ last = Idle
    /\ nextId <= MaxEditId
    /\ \E a \in AddArgs :
         Add(a, FALSE, None, <<>>, RequestException, RequestException)

EditWideStep ==
    /\ last = Idle
    /\ \E task_id \in 1..MaxEditId, description \in WideEditDescriptions,
          due_date \in WideEditDueDates, priority \in WideEditPriorities,
          category \in WideEditCategories :
         Edit(task_id, description, due_date, priority, category)

\* offline adds and edits of any combination of fields
NextEdit == AddOfflineStep \/ EditWideStep \/ Exit

SpecEdit == Init /\ [][NextEdit]_vars

\* add() of one of the tasks of the listings while the service is unreachable
AddQueryStep ==
    /\ last = Idle
    /\ nextId <= MaxQueryId
    /\ \E a \in QueryAddArgs :
         Add(a, FALSE, None, <<>>, RequestException, RequestException)

\* get_pending_tasks(sort_by, category, priority)
ListStep ==
    /\ last = Idle
    /\ \E sort_by \in SortBys, category \in CategoryFilters,
          priority \in PriorityFilters :
         \E result \in get_pending_tasks(store, sort_by, category, priority) :
           last' = [ op |-> "list", sort_by |-> sort_by, category |-> category,
                     priority |-> priority, result |-> result ]
    /\ UNCHANGED <<store, nextId, firstPost, carded>>

\* get_sub_tasks(parent_id) and has_sub_tasks(parent_id)
SubListStep ==
    /\ last = Idle
    /\ \E parent_id \in 1..MaxQueryId :
         last' = [ op |-> "sub_list", parent_id |-> parent_id,
                   result |-> get_sub_tasks(store, parent_id),
                   has |-> has_sub_tasks(store, parent_id) ]
    /\ UNCHANGED <<store, nextId, firstPost, carded>>

\* search_pending_tasks(query)
SearchStep ==
    /\ last = Idle
    /\ \E query \in Queries :
         last' = [ op |-> "search", query |-> query,
                   result |-> search_pending_tasks(store, query) ]
    /\ UNCHANGED <<store, nextId, firstPost, carded>>

\* offline adds, uploads, and the read-only queries of the store
NextQuery ==
    AddQueryStep \/ UploadStep \/ ListStep \/ SubListStep \/ SearchStep \/ Exit

SpecQuery == Init /\ [][NextQuery]_vars

PlainArgs(task, parent_id) ==
    [ task |-> task, due_date |-> None, priority |-> 1, category |-> "General",
      parent_id |-> parent_id ]

\* the add command while the service cannot be reached: a top-level task
TreeAddStep ==
    /\ last = Idle
    /\ nextId <= MaxTreeId
    /\ \E task \in Descriptions :
         Add(PlainArgs(task, None), FALSE, None, <<>>,
             RequestException, RequestException)

\* handle_sub_add_command(args) while the service cannot be reached: the
\* parent is the task at that number of the top-level listing
SubAdd(parent_task_number, task) ==
    LET tasks == TopLevelFilter(store, None, None)
        parent_task == get_task_from_list_by_number(tasks, parent_task_number)
    IN  IF parent_task = None
        THEN /\ last' = [ op |-> "sub_add", pre |-> store,
                          parent_task_number |-> parent_task_number ]
             /\ UNCHANGED <<store, nextId, firstPost, carded>>
        ELSE Add(PlainArgs(task, Some(parent_task[1].id)), FALSE, None, <<>>,
                 RequestException, RequestException)

SubAddStep ==
    /\ last = Idle
    /\ nextId <= MaxTreeId
    /\ \E parent_task_number \in 1..MaxTreeId, task \in Descriptions :
         SubAdd(parent_task_number, task)

\* add(task, parent_id = n) called with any number as the parent
AddParentStep ==
    /\ last = Idle
    /\ nextId <= MaxTreeId
    /\ \E task \in Descriptions, parent_id \in 1..MaxTreeId :
         Add(PlainArgs(task, Some(parent_id)), FALSE, None, <<>>,
             RequestException, RequestException)

\* the commands add, sub add, remove and upload
NextTree == TreeAddStep \/ SubAddStep \/ DeleteStep \/ UploadStep \/ Exit

SpecTree == Init /\ [][NextTree]_vars

\* the same with add() called directly with a parent_id
NextParent ==
    TreeAddStep \/ SubAddStep \/ AddParentStep \/ DeleteStep \/ UploadStep \/ Exit

SpecParent == Init /\ [][NextParent]_vars

\* the tables an older version of the program may have left: rows 1..n with
\* some of the added columns missing
OldDescriptions == <<<<"a">>, <<"b">>, <<"c">>>>
OldRowsAt(i) ==
    { Row(i, OldDescriptions[i], d.due_date, d.priority, d.category, d.parent_id) :
      d \in Attributes \cup
            { [due_date |-> None, priority |-> 2, category |-> "Home",
               parent_id |-> None] } }
OldTables ==
    UNION { { [i \in 1..n |-> [c \in BaseColumns \cup columns |-> full[i][c]]] :
              full \in { f \in [1..n -> UNION {OldRowsAt(i) : i \in 1..n}] :
                           \A i \in 1..n : f[i] \in OldRowsAt(i) } } :
            n \in 0..MaxOldRows, columns \in SUBSET AddedColumns }

\* the state in which a new version of the program finds an old database
InitOld ==
    /\ store \in OldTables
    /\ nextId = Len(store) + 1
    /\ last = Idle
    /\ firstPost = <<>>
    /\ carded = {}

\* TaskList(): the constructor opens the database and runs _init_db()
Open ==
    /\ store' = _init_db(store)
    /\ last' = [op |-> "open", pre |-> store]
    /\ UNCHANGED <<nextId, firstPost, carded>>

OpenStep == last = Idle /\ Open

\* starts of the program on a database of any age
NextOpen == OpenStep \/ Exit

SpecOpen == InitOld /\ [][NextOpen]_vars

\* the outcomes of n requests that all create their card
GoodScripts(n) == { [i \in 1..n |-> r] : r \in {Response(200), Response(201)} }

Steady(pre, sent, end) == [op |-> "steady", pre |-> pre, sent |-> sent, end |-> end]

\* from here on nothing is added and every create call succeeds
SettleStep ==
    /\ last = Idle
    /\ last' = Steady(store, <<>>, "none")
    /\ UNCHANGED <<store, nextId, firstPost, carded>>

\* upload() once the service answers every create call with success
UploadSteadyStep ==
    /\ last.op = "steady"
    /\ \E script \in GoodScripts(Len(store)) :
         \E up \in {upload(store, script)} :
           /\ store' = up.rows
           /\ nextId' = nextId
           /\ firstPost' = NoteFirst(firstPost, up.sent)
           /\ carded' = carded \cup Succeeded(up.sent)
           /\ last' = Steady(store, up.sent, up.end)

\* adds and uploads with any outcome, then uploads that all succeed, called
\* again and again
ExitEarlier == last.op # "steady" /\ Exit

NextDrain ==
    AddOfflineStep \/ UploadStep \/ ExitEarlier \/ SettleStep \/ UploadSteadyStep

SpecDrain == Init /\ [][NextDrain]_vars /\ WF_vars(UploadSteadyStep)

\* offline adds (sub-tasks among them), edit commands and upload commands
NextCommand == AddOfflineStep \/ EditCommandStep \/ UploadCommandStep \/ Exit

SpecCommand == Init /\ [][NextCommand]_vars

\* offline adds and single create calls
NextCard == AddOfflineStep \/ CreateCardStep \/ Exit

SpecCard == Init /\ [][NextCard]_vars

\* adds and uploads, with uploads that the end of the process cuts short
NextStop == AddStep \/ UploadStep \/ UploadStoppedStep \/ Exit

SpecStop == Init /\ [][NextStop]_vars

\* ------------------------------------------------------------ vocabulary
Ok(post) == ~post.resp.exc /\ post.resp.status \in {200, 201}
Rejected(post) == ~post.resp.exc /\ post.resp.status \notin {200, 201}
NetFailed(post) == post.resp.exc

\* the k-th request of the call that just ended is its first failure
FirstFailure(k) ==
    /\ k \in 1..Len(last.sent)
    /\ ~Ok(last.sent[k])
    /\ \A i \in 1..(k - 1) : Ok(last.sent[i])

\* the rows of the store that carry the description
RowsOf(rows, description) ==
    {i \in 1..Len(rows) : rows[i].description = description}

\* the card text the remote client is specified to send
CardText(priority, category, parent_id) ==
    "Priority: " \o ToString(priority) \o "\nCategory: " \o category
    \o (IF parent_id = None THEN "" ELSE "\nSub-task of: " \o ToString(parent_id[1]))

AddDone == last.op = "add" /\ ~IsBlank(last.args.task)
UploadDone == last.op = "upload"

\* the requests add() made for its own task (not for the queued ones)
OwnPosts == {i \in 1..Len(last.sent) : last.sent[i].tid = 0}

ProbeSaid(b) == last.probe # None /\ check_network(last.probe[1]) = b

\* C1: if the k-th create call of upload() fails after k-1 successes, the
\* store afterwards is exactly tasks k..N of the queue, in their order.
C1_PrefixRemoved ==
    UploadDone =>
        \A k \in 1..Len(last.pre) :
            FirstFailure(k) => store = SubSeq(last.pre, k, Len(last.pre))

\* C2: after add() of a non-blank description the task is in exactly one
\* place: a card was created for it, or a pending row holds its description.
C2_ExactlyOnePlace ==
    AddDone =>
        ((\E i \in OwnPosts : Ok(last.sent[i]))
            # HasDescription(store, last.args.task))

\* C3: after upload(), however it ended, no task whose create call
\* succeeded during the call is still in the pending store.
C3_UploadedAreGone ==
    UploadDone =>
        \A i \in 1..Len(last.sent) :
            Ok(last.sent[i]) =>
                \A j \in 1..Len(store) : store[j].id # last.sent[i].tid

\* C4 as stated: add() with the probe reporting unreachable issues no create
\* request and leaves exactly one row with the description, carrying the
\* fields given to this call.
C4_OfflineAddAsStated ==
    (AddDone /\ ProbeSaid(FALSE)) =>
        /\ last.sent = <<>>
        /\ Cardinality(RowsOf(store, last.args.task)) = 1
        /\ \A i \in RowsOf(store, last.args.task) :
              /\ store[i].due_date = last.args.due_date
              /\ store[i].priority = last.args.priority
              /\ store[i].category = last.args.category
              /\ store[i].parent_id = last.args.parent_id

\* C4 amended: add() with the probe reporting unreachable issues no create
\* request for the new task (a forced upload may have issued requests for
\* queued tasks), and leaves exactly one row with the description: a row
\* that held the description when the insert ran is kept as it was,
\* otherwise a new row with the given fields is appended.
C4_OfflineAdd ==
    (AddDone /\ ProbeSaid(FALSE)) =>
        /\ OwnPosts = {}
        /\ (~(last.force_upload /\ last.pre # <<>>) => last.sent = <<>>)
        /\ Cardinality(RowsOf(store, last.args.task)) = 1
        /\ IF RowsOf(last.mid, last.args.task) # {}
           THEN store = last.mid
           ELSE /\ Len(store) = Len(last.mid) + 1
                /\ SubSeq(store, 1, Len(last.mid)) = last.mid
                /\ store[Len(store)].description = last.args.task
                /\ store[Len(store)].due_date = last.args.due_date
                /\ store[Len(store)].priority = last.args.priority
                /\ store[Len(store)].category = last.args.category
                /\ store[Len(store)].parent_id = last.args.parent_id

\* an offline add after a forced upload that sent requests, appending a row
C4_Witness ==
    /\ AddDone /\ ProbeSaid(FALSE)
    /\ last.force_upload /\ last.sent # <<>>
    /\ Len(store) = Len(last.mid) + 1
    /\ last.args.parent_id # None

\* C5: add() without force_upload, probe reachable, create answered with
\* success: exactly one create request, with name, card text, due date and
\* list as specified, and the pending store is what it was before.
C5_OnlineAdd ==
    (AddDone /\ ~last.force_upload /\ ProbeSaid(TRUE)
        /\ \E i \in OwnPosts : Ok(last.sent[i])) =>
        /\ Len(last.sent) = 1
        /\ last.sent[1].data.name = last.args.task
        /\ last.sent[1].data.desc =
              CardText(last.args.priority, last.args.category, last.args.parent_id)
        /\ last.sent[1].data.due = last.args.due_date
        /\ last.sent[1].data.idList =
              (IF last.list_id = None THEN self_list_id ELSE last.list_id[1])
        /\ store = last.pre

\* an online add of a sub-task with a due date, to a non-empty store
C5_Witness ==
    /\ AddDone /\ ~last.force_upload /\ ProbeSaid(TRUE)
    /\ \E i \in OwnPosts : Ok(last.sent[i])
    /\ last.args.parent_id # None
    /\ last.sent[1].data.desc = "Priority: 3\nCategory: Work\nSub-task of: 1"
    /\ last.sent[1].data.idList = "other_list_id"
    /\ last.pre # <<>>

\* C6: add() with the probe reachable and the create call rejected with a
\* non-2xx status falls back to the local insert: a pending row with the
\* description exists afterwards and no card was created for the task.
C6_RejectedAddFallsBack ==
    (AddDone /\ ProbeSaid(TRUE) /\ \E i \in OwnPosts : Rejected(last.sent[i])) =>
        /\ HasDescription(store, last.args.task)
        /\ \A i \in OwnPosts : ~Ok(last.sent[i])
        /\ ~last.raised

\* a rejected online add whose description was not pending before
C6_Witness ==
    /\ AddDone /\ ProbeSaid(TRUE)
    /\ \E i \in OwnPosts : Rejected(last.sent[i])
    /\ ~HasDescription(last.pre, last.args.task)
    /\ Len(store) = Len(last.pre) + 1

\* C7: add() never surfaces a connectivity failure: it returns normally, and
\* when the probe or its create call failed at the network level the task
\* is queued locally.
C7_AddNeverRaises ==
    AddDone =>
        /\ ~last.raised
        /\ ((\/ (last.probe # None /\ last.probe[1].exc)
             \/ \E i \in OwnPosts : NetFailed(last.sent[i]))
            => HasDescription(store, last.args.task))

\* C8: upload() of a non-empty queue of N tasks whose create calls all
\* succeed issues exactly N requests, the i-th with the fields of the i-th
\* task, and leaves the pending store empty.
C8_FullUpload ==
    (UploadDone /\ last.pre # <<>> /\ \A i \in 1..Len(last.sent) : Ok(last.sent[i])) =>
        /\ Len(last.sent) = Len(last.pre)
        /\ \A i \in 1..Len(last.pre) :
              /\ last.sent[i].tid = last.pre[i].id
              /\ last.sent[i].data.name = last.pre[i].description
              /\ last.sent[i].data.desc =
                    CardText(last.pre[i].priority, last.pre[i].category,
                             last.pre[i].parent_id)
              /\ last.sent[i].data.due = last.pre[i].due_date
              /\ last.sent[i].data.idList = self_list_id
        /\ store = <<>>

\* a fully successful upload of three tasks, one of them a sub-task
C8_Witness ==
    /\ UploadDone /\ Len(last.pre) = 3
    /\ \A i \in 1..Len(last.sent) : Ok(last.sent[i])
    /\ \E i \in 1..3 : last.pre[i].parent_id # None
    /\ \E i \in 1..3 : last.pre[i].parent_id = None

\* C9: upload() stops at the first failing create call: when the k-th call
\* is the first to fail, exactly k requests were issued, for tasks 1..k.
C9_StopsAtFirstFailure ==
    UploadDone =>
        \A k \in 1..Len(last.pre) :
            FirstFailure(k) =>
                /\ Len(last.sent) = k
                /\ \A i \in 1..k : last.sent[i].tid = last.pre[i].id
                /\ \A j \in (k + 1)..Len(last.pre) :
                      \A i \in 1..Len(last.sent) : last.sent[i].tid # last.pre[j].id

\* an upload of three tasks whose second request fails
C9_Witness ==
    /\ UploadDone /\ Len(last.pre) = 3
    /\ FirstFailure(2)

\* position of a pending row's id in the order of first create calls
FirstPostAt(id) == CHOOSE i \in 1..Len(firstPost) : firstPost[i] = id

\* C10: of two tasks that both got a card through upload(), the one
\* inserted first (the smaller id) had its first create call first.
C10_QueueOrderOnRemote ==
    \A a \in carded, b \in carded :
        a < b => FirstPostAt(a) < FirstPostAt(b)

\* task 2 gets its card in a later upload() than task 1, after a failure
C10_Witness ==
    /\ UploadDone
    /\ {1, 2} \subseteq carded
    /\ firstPost = <<1, 2>>
    /\ Len(last.sent) = 1 /\ last.sent[1].tid = 2 /\ Ok(last.sent[1])

UploadStoppedDone == last.op = "upload_stopped"

\* the rows of last.pre whose create call succeeded in the call that ended
CardedNow == {last.sent[i].tid : i \in {n \in 1..Len(last.sent) : Ok(last.sent[n])}}

\* C11 as stated: when the process stops anywhere inside upload(), the store
\* still holds every task that was pending when upload() started, unchanged.
C11_StoppedUploadAsStated ==
    UploadStoppedDone => store = last.pre

\* C11 amended: when the process stops inside upload() before _clear_tasks
\* has committed, the store is what it was when upload() started; when it
\* stops after that commit, exactly the tasks whose create call succeeded
\* are gone; either way every task whose create call has not succeeded is
\* still pending with unchanged fields.
C11_StoppedUpload ==
    UploadStoppedDone =>
        /\ ~last.cleared => store = last.pre
        /\ last.cleared =>
              /\ \A i \in 1..Len(store) : store[i].id \notin CardedNow
              /\ Len(store) = Len(last.pre) - Cardinality(CardedNow)
        /\ \A i \in 1..Len(last.pre) :
              last.pre[i].id \notin CardedNow =>
                  \E j \in 1..Len(store) : store[j] = last.pre[i]

\* the process stops after two requests, the first of which created a card
C11_Witness ==
    /\ UploadStoppedDone /\ ~last.cleared
    /\ Len(last.sent) = 2 /\ Ok(last.sent[1])
    /\ Len(last.pre) = 3

\* add() reached _save_task_locally for its task
InsertTried ==
    /\ AddDone
    /\ \/ ProbeSaid(FALSE)
       \/ ProbeSaid(TRUE) /\ \E i \in OwnPosts : Rejected(last.sent[i])

\* C12: no two pending rows have the same description, and a local insert
\* whose description is already pending leaves the store as it was.
C12_UniqueDescriptions ==
    /\ \A i, j \in 1..Len(store) :
          store[i].description = store[j].description => i = j
    /\ (InsertTried /\ HasDescription(last.mid, last.args.task)) =>
          store = last.mid

\* a local insert of a description that is pending with other fields
C12_Witness ==
    /\ InsertTried
    /\ \E i \in 1..Len(last.mid) :
          /\ last.mid[i].description = last.args.task
          /\ last.mid[i].priority # last.args.priority
    /\ Len(store) = 2

DeleteDone == last.op = "delete"

\* C13: delete(description) removes the one row with that description and
\* returns true, every other row staying as it was; when no row has the
\* description it returns false and the store is unchanged.
C13_Delete ==
    DeleteDone =>
        IF \E i \in 1..Len(last.pre) : last.pre[i].description = last.description
        THEN /\ last.ret
             /\ Len(store) = Len(last.pre) - 1
             /\ \A j \in 1..Len(store) : store[j].description # last.description
             /\ \A i \in 1..Len(last.pre) :
                   last.pre[i].description # last.description =>
                       \E j \in 1..Len(store) : store[j] = last.pre[i]
        ELSE /\ ~last.ret
             /\ store = last.pre

\* a delete that removes the middle one of three rows
C13_Witness ==
    /\ DeleteDone /\ last.ret
    /\ Len(last.pre) = 3
    /\ last.pre[2].description = last.description
    /\ store = <<last.pre[1], last.pre[3]>>

EditDone == last.op = "edit"

\* C14: edit(id, fields...) leaves every row with another id as it was, and
\* on the row with that id leaves id, parent_id and every omitted field as
\* they were; with no field supplied it changes nothing and returns false.
C14_EditFrame ==
    EditDone =>
        /\ Len(store) = Len(last.pre)
        /\ \A i \in 1..Len(last.pre) :
              /\ last.pre[i].id # last.task_id => store[i] = last.pre[i]
              /\ store[i].id = last.pre[i].id
              /\ store[i].parent_id = last.pre[i].parent_id
              /\ last.description = None =>
                    store[i].description = last.pre[i].description
              /\ last.due_date = None => store[i].due_date = last.pre[i].due_date
              /\ last.priority = None => store[i].priority = last.pre[i].priority
              /\ last.category = None => store[i].category = last.pre[i].category
        /\ (last.description = None /\ last.due_date = None
              /\ last.priority = None /\ last.category = None) =>
                 (store = last.pre /\ ~last.ret)

\* an edit of the description and category of a sub-task with a due date,
\* next to another row
C14_Witness ==
    /\ EditDone /\ last.ret
    /\ last.description # None /\ last.category # None
    /\ last.due_date = None /\ last.priority = None
    /\ Len(store) = 2
    /\ \E i \in 1..2 :
          /\ store[i].id = last.task_id
          /\ store[i].description # last.pre[i].description
          /\ store[i].category = "Home"
          /\ store[i].due_date # None /\ store[i].priority = 3
          /\ store[i].parent_id # None

\* ---------------------------------------------------------------- C15
ListDone    == last.op = "list"
SubListDone == last.op = "sub_list"
Elements(s) == {s[i] : i \in 1..Len(s)}

\* C15: a pending row is in the unfiltered top-level listing exactly when it
\* has no parent_id; it is in the listing of the children of p exactly when
\* its parent_id is p; and p has children exactly when some pending row has
\* parent_id p.
C15_ParentLinks ==
    /\ (ListDone /\ last.category = None /\ last.priority = None) =>
          \A t \in Elements(store) \cup Elements(last.result) :
             t \in Elements(last.result) <=>
                (t \in Elements(store) /\ t.parent_id = None)
    /\ SubListDone =>
          /\ \A t \in Elements(store) \cup Elements(last.result) :
                t \in Elements(last.result) <=>
                   (t \in Elements(store) /\ t.parent_id = Some(last.parent_id))
          /\ last.has <=>
                \E t \in Elements(store) : t.parent_id = Some(last.parent_id)

\* the children of a row that is itself pending are listed, next to a
\* top-level row that is not among them
C15_Witness ==
    /\ SubListDone /\ last.has
    /\ Len(last.result) = 1
    /\ \E t \in Elements(store) : t.id = last.parent_id /\ t.parent_id = None
    /\ \E t \in Elements(store) : t.id # last.parent_id /\ t.parent_id = None

\* ---------------------------------------------------------------- C16
BlankAddDone ==
    /\ last.op = "add"
    /\ \A i \in 1..Len(last.args.task) : last.args.task[i] \in Whitespace

\* C16: add() of a description that is empty or all white space does
\* nothing, whatever force_upload is and whatever is queued: no upload of the
\* queue, no probe, no create call, no change of the store, no error raised.
C16_BlankAddNoOp ==
    BlankAddDone =>
        /\ last.events = <<>>
        /\ last.sent = <<>>
        /\ last.forced = "none"
        /\ last.probe = None
        /\ store = last.pre
        /\ ~last.raised

\* a blank add with force_upload and two tasks queued
C16_Witness ==
    /\ BlankAddDone
    /\ last.args.task # <<>>
    /\ last.force_upload
    /\ Len(last.pre) = 2

\* ---------------------------------------------------------------- C17
IsQueuedCreate(e) == e.kind = "create" /\ e.tid # 0

\* C17: in add() of a non-blank task with force_upload and a non-empty
\* queue, every create call for a queued task comes before the connectivity
\* probe, before the create call for the new task and before its insert;
\* without force_upload, or with an empty queue, add() makes no create call
\* for a queued task.
C17_QueueBeforeNewTask ==
    AddDone =>
        /\ \A i, j \in 1..Len(last.events) :
              (IsQueuedCreate(last.events[i]) /\ ~IsQueuedCreate(last.events[j]))
                 => i < j
        /\ {i \in 1..Len(last.sent) : last.sent[i].tid # 0}
              = {i \in 1..Len(last.events) : IsQueuedCreate(last.events[i])}
        /\ (~last.force_upload \/ last.pre = <<>>) =>
              \A i \in 1..Len(last.sent) : last.sent[i].tid = 0

\* a forced upload of two queued tasks, then the probe, a rejected create
\* call for the new task and its insert
C17_Witness ==
    /\ AddDone /\ last.force_upload
    /\ Len(last.pre) = 2
    /\ Len(last.events) = 5
    /\ last.events[3].kind = "probe"
    /\ last.events[5].kind = "insert"
    /\ Len(store) = 1

\* ---------------------------------------------------------------- C18
\* C18: upload() on an empty store returns at once: it makes no request and
\* the store is still empty.
C18_EmptyUpload ==
    (UploadDone /\ last.pre = <<>>) =>
        /\ last.end = "empty"
        /\ last.sent = <<>>
        /\ store = <<>>
        /\ ~last.raised

\* an upload on a store that earlier uploads have emptied
C18_Witness ==
    /\ UploadDone /\ last.pre = <<>>
    /\ store = <<>>
    /\ nextId > 1

\* ---------------------------------------------------------------- C19
\* the top-level rows a listing is to return: those that match each filter
\* for which Given holds
Wanted(Given(_), GivenInt(_)) ==
    LET Keep(t) == /\ t.parent_id = None
                   /\ Given(last.category) => t.category = last.category[1]
                   /\ GivenInt(last.priority) => t.priority = last.priority[1]
    IN  SelectSeq(store, Keep)

Ascending(result, sort_by) ==
    \A i, j \in 1..Len(result) :
       i < j =>
          IF sort_by = "priority" THEN result[i].priority <= result[j].priority
          ELSE (result[i].due_date # None /\ result[j].due_date # None) =>
                  TextRank(result[i].due_date[1]) <= TextRank(result[j].due_date[1])

Composes(Given(_), GivenInt(_)) ==
    ListDone =>
        /\ Elements(last.result) = Elements(Wanted(Given, GivenInt))
        /\ Len(last.result) = Len(Wanted(Given, GivenInt))
        /\ last.sort_by \in {Some("priority"), Some("due_date")} =>
              Ascending(last.result, last.sort_by[1])
        /\ last.sort_by \notin {Some("priority"), Some("due_date")} =>
              last.result = Wanted(Given, GivenInt)

IsGiven(o) == o # None

\* C19: the listing returns exactly the top-level rows whose category is the
\* category filter, when one is given, and whose priority is the priority
\* filter, when one is given; it is ascending in the sort field when sort_by
\* is priority or due_date, and with any other sort_by the rows come unsorted
\* and are the same rows.
C19_FilterSortCompose == Composes(IsGiven, IsGiven)

\* the same with a filter counted as given only when it is neither empty
\* nor zero
ListWithNonEmptyFilters == Composes(TruthyStr, TruthyInt)

\* ---------------------------------------------------------------- C20
SearchDone == last.op = "search"

Contains(text, query) ==
    \E i \in 0..(Len(text) - Len(query)) : SubSeq(text, i + 1, i + Len(query)) = query

FoldAll(text) == [i \in 1..Len(text) |-> Fold(text[i])]

\* C20: search(query) returns only pending rows whose description contains
\* the query as a substring (letter case aside), and returns every row whose
\* description contains the query; when no description contains it the
\* result is empty.
C20_SearchIsSubstring ==
    SearchDone =>
        /\ \A t \in Elements(last.result) :
              /\ t \in Elements(store)
              /\ Contains(FoldAll(t.description), FoldAll(last.query))
        /\ \A t \in Elements(store) :
              Contains(t.description, last.query) => t \in Elements(last.result)

\* the same for the queries without the characters % and _
SearchWithoutWildcards ==
    (SearchDone /\ \A i \in 1..Len(last.query) : last.query[i] \notin {"%", "_"})
        => C20_SearchIsSubstring

\* ---------------------------------------------------------------- C21
CreateCardDone == last.op = "create_card"

\* C21: create_card returns true exactly for an answer of status 200 or 201,
\* returns false for an answer of any other status, raises when the network
\* call itself fails, and in no case changes the pending store.
C21_CreateCardOutcomes ==
    CreateCardDone =>
        /\ last.ret = "true" <=>
              (~last.call.resp.exc /\ last.call.resp.status \in {200, 201})
        /\ last.ret = "false" <=>
              (~last.call.resp.exc /\ last.call.resp.status \notin {200, 201})
        /\ last.ret = "raise" <=> last.call.resp.exc
        /\ store = last.pre

\* a create call whose request fails, made while two tasks are pending
C21_Witness ==
    /\ CreateCardDone
    /\ last.call.resp.exc /\ last.ret = "raise"
    /\ Len(store) = 2

\* ---------------------------------------------------------------- C22
EditCommandDone == last.op = "edit_command"

\* C22: every pending row has a non-empty description, and an edit command
\* that supplies an empty description, alone or with other fields, is
\* rejected and changes nothing.
C22_DescriptionNeverEmpty ==
    /\ \A i \in 1..Len(store) : store[i].description # <<>>
    /\ (EditCommandDone /\ last.description = Some(<<>>)) =>
          (store = last.pre /\ last.outcome # "edited")

\* ---------------------------------------------------------------- C23
\* the ids handed out so far (AUTOINCREMENT never hands one out twice)
IssuedIds == 1..(nextId - 1)

\* C23: the parent_id of every pending row is an id that a pending row has
\* or once had, and the ids of the pending rows are distinct ids handed out
\* once each.
C23_ParentIdWasIssued ==
    /\ \A i \in 1..Len(store) :
          /\ store[i].id \in IssuedIds
          /\ store[i].parent_id # None => store[i].parent_id[1] \in IssuedIds
    /\ \A i, j \in 1..Len(store) : store[i].id = store[j].id => i = j

\* ---------------------------------------------------------------- C24
\* the edit asked for a description that another pending row held
EditClashed ==
    /\ EditDone /\ last.description # None
    /\ \E i \in 1..Len(last.pre) : /\ last.pre[i].id # last.task_id
                                   /\ last.pre[i].description = last.description[1]

\* C24: an edit to a description that another pending row already has
\* returns false and leaves every row, the edited one and its other supplied
\* fields included, as it was.
C24_ClashChangesNothing ==
    EditClashed => (~last.ret /\ store = last.pre)

\* an edit of an existing row to the description of the other row, with a
\* new category and priority supplied as well
C24_Witness ==
    /\ EditClashed
    /\ \E i \in 1..Len(last.pre) : last.pre[i].id = last.task_id
    /\ last.category # None /\ last.priority # None
    /\ \A i \in 1..Len(store) : store[i].category # last.category[1]

\* ---------------------------------------------------------------- C25
OpenDone == last.op = "open"

\* C25: initialising the store keeps every row, with its id and every value
\* it had, and a column the old schema lacked reads as its default: priority
\* 1, category General, no due date, no parent.
C25_OpenKeepsRows ==
    OpenDone =>
        /\ Len(store) = Len(last.pre)
        /\ \A i \in 1..Len(store) :
              /\ DOMAIN store[i] = BaseColumns \cup AddedColumns
              /\ \A c \in DOMAIN last.pre[i] : store[i][c] = last.pre[i][c]
              /\ "due_date" \notin DOMAIN last.pre[i] => store[i].due_date = None
              /\ "priority" \notin DOMAIN last.pre[i] => store[i].priority = 1
              /\ "category" \notin DOMAIN last.pre[i] => store[i].category = "General"
              /\ "parent_id" \notin DOMAIN last.pre[i] => store[i].parent_id = None

\* a table of two rows that had a due date and a category but neither
\* priority nor parent is opened
C25_Witness ==
    /\ OpenDone
    /\ Len(last.pre) = 2
    /\ DOMAIN last.pre[1] = BaseColumns \cup {"due_date", "category"}
    /\ last.pre[2].category = "Work"
    /\ store[2].category = "Work" /\ store[2].priority = 1

\* ---------------------------------------------------------------- C26
UploadCommandDone == last.op = "upload_command"

SuccessPrinted ==
    \E i \in 1..Len(last.printed) :
       last.printed[i].text = "All tasks uploaded successfully."

\* C26: whenever the upload command prints "All tasks uploaded
\* successfully." the pending store is empty; after an upload() that stopped
\* on a failed task and left tasks queued the line is not printed.
C26_SuccessMeansEmpty ==
    (UploadCommandDone /\ SuccessPrinted) => store = <<>>

\* ---------------------------------------------------------------- C27
\* C27: when the upload() forced by add() stopped on a failure and left
\* tasks pending, the new task gets no remote card in that call of add().
C27_NewTaskWaitsItsTurn ==
    (AddDone /\ last.force_upload /\ last.forced \in {"aborted", "raised"}
        /\ last.mid # <<>>) =>
        \A i \in OwnPosts : ~Ok(last.sent[i])

\* ---------------------------------------------------------------- C28
UploadRan == last.op \in {"upload", "steady"}

\* C28: a call of upload() makes at most one create call for each task it
\* loaded; and once nothing is added any more, upload() is called again and
\* again and every create call succeeds, the pending store becomes empty and
\* stays empty.
C28_QueueDrains ==
    /\ [](UploadRan =>
            /\ Len(last.sent) <= Len(last.pre)
            /\ \A i, j \in 1..Len(last.sent) :
                  last.sent[i].tid = last.sent[j].tid => i = j
            /\ \A i \in 1..Len(last.sent) :
                  \E j \in 1..Len(last.pre) : last.pre[j].id = last.sent[i].tid)
    /\ (last.op = "steady") ~> [](store = <<>>)

\* an upload of the steady phase that found two tasks and left none
C28_Witness ==
    /\ last.op = "steady"
    /\ Len(last.pre) = 2 /\ Len(last.sent) = 2
    /\ store = <<>>

\* ---------------------------------------------------------------- C29
\* C29: no call of upload(), alone or forced by add(), gets a card created
\* for a pending row for which an earlier call already got one created.
C29_AtMostOneCard ==
    [][ (last'.op \in {"upload", "add"}) =>
           \A i \in 1..Len(last'.sent) :
              (last'.sent[i].tid # 0 /\ Ok(last'.sent[i]))
                 => last'.sent[i].tid \notin carded ]_vars

\* ---------------------------------------------------------------- C30
TopLevelNow == Elements(TopLevelFilter(store, None, None))

\* C30: every pending row is shown by a listing: it is in the top-level
\* listing, or in the listing of the children of a row that is itself in the
\* top-level listing.
C30_EveryRowIsListed ==
    \A t \in Elements(store) :
       \/ t \in TopLevelNow
       \/ \E p \in TopLevelNow : t \in Elements(get_sub_tasks(store, p.id))

====
